---- MODULE Spec2Model ----
(***************************************************************************)
(* Model of the SIGA -> MegaZap integration (src/src/clients.py,           *)
(* src/src/integration.py, src/src/config.py).                             *)
(*                                                                         *)
(* JSON scalars are records [t, v]: t is the JSON type ("null", "str",     *)
(* "int") and v the printed form of the value, so that Python's            *)
(* truthiness (`or` chains) and str() are computed, not assumed.           *)
(***************************************************************************)
EXTENDS Integers, Sequences, FiniteSets, TLC

VARIABLES
    pc,            \* position of the single thread of control
    caller,        \* who consumes iter_active_students: "run" or "list"; "direct" for a direct call
    args,          \* parsed command line: dry_run, debug_siga, debug
    env,           \* environment: which tokens are set
    page,          \* iter_active_students: local `page`
    payload,       \* iter_active_students: local `payload` (last page body)
    items,         \* iter_active_students: local `items`
    idx,           \* iter_active_students: position of the for loop in items
    student,       \* run_integration: loop variable `student`
    boletos,       \* run_integration: local `boletos`
    bidx,          \* run_integration: position of the for loop in boletos
    requests,      \* every HTTP request issued so far, in order
    pagesServed,   \* bodies of the student-page responses received, in order
    boletosServed, \* bodies of the invoice responses received, in order
    yielded,       \* students yielded by iter_active_students, in order
    log,           \* log records written (warnings, dry-run payloads, results)
    error,         \* exception that ended the process, "" when none
    input,         \* argument of the pure function under check
    output         \* its result

vars == <<pc, caller, args, env, page, payload, items, idx, student, boletos,
          bidx, requests, pagesServed, boletosServed, yielded, log, error,
          input, output>>

----------------------------------------------------------------------------
(* Bounds of the model *)

MaxPage == 2
MaxBoletos == 2
MaxDay == 3
MaxTokenLen == 9

----------------------------------------------------------------------------
(* JSON scalars and Python truthiness *)

Null == [t |-> "null", v |-> ""]
Str(s) == [t |-> "str", v |-> s]
Num(s) == [t |-> "int", v |-> s]

\* bool(x) of a JSON scalar: None, "" and 0 are falsy.
Truthy(x) ==
    /\ x.t # "null"
    /\ ~(x.t = "str" /\ x.v = "")
    /\ ~(x.t = "int" /\ x.v = "0")

\* Python's  a or b
Or(a, b) == IF Truthy(a) THEN a ELSE b

\* Python's str(x)
PyStr(x) == IF x.t = "null" THEN "None" ELSE x.v

\* All sequences over S of length at most n.
SeqsUpTo(S, n) == UNION {[1..k -> S] : k \in 0..n}

IsPrefix(s, t) == Len(s) <= Len(t) /\ \A i \in 1..Len(s) : s[i] = t[i]

----------------------------------------------------------------------------
(* Student-page responses *)

\* An optional JSON field holding a list: dict.get returns None when absent.
NoList == [has |-> FALSE, val |-> <<>>]
List(l) == [has |-> TRUE, val |-> l]

\* An optional JSON field holding a page count, sent as a number or as a
\* string of digits (the code passes it through int()).
NoCount == [has |-> FALSE, str |-> FALSE, val |-> 0]
Count(n) == [has |-> TRUE, str |-> FALSE, val |-> n]
CountStr(n) == [has |-> TRUE, str |-> TRUE, val |-> n]

\* bool(x) of an optional list: None and [] are falsy.
ListTruthy(x) == x.has /\ x.val # <<>>

\* bool(x) of an optional count: None and 0 are falsy, any string of digits
\* (also "0") is truthy.
CountTruthy(x) == x.has /\ (x.str \/ x.val # 0)

\* Fault variant: `data` tried before `items`.
PageItemsDataFirst(body) ==
    IF ListTruthy(body.data) THEN body.data.val
    ELSE IF ListTruthy(body.items) THEN body.items.val
    ELSE <<>>

\* items = payload.get("items") or payload.get("data") or []
PageItems(body) ==
    IF ListTruthy(body.items) THEN body.items.val
    ELSE IF ListTruthy(body.data) THEN body.data.val
    ELSE <<>>

\* total_pages = payload.get("totalPages") or payload.get("pages")
TotalPages(body) ==
    IF CountTruthy(body.totalPages) THEN body.totalPages ELSE body.pages

\* Fault variant: page > total instead of page >= total.
ReachedTotalStrict(body, p) ==
    CountTruthy(TotalPages(body)) /\ p > TotalPages(body).val

\* if total_pages and page >= int(total_pages): break
ReachedTotal(body, p) ==
    CountTruthy(TotalPages(body)) /\ p >= TotalPages(body).val

\* Fault variant: no break on an empty page.
StopsOnEmptyNever(its) == FALSE

\* if not items: break
StopsOnEmpty(its) == its = <<>>

\* Student(id=str(item.get("id") or item.get("codigo") or ""),
\*         name=item.get("nome") or item.get("name") or "",
\*         phone=item.get("telefone") or item.get("celular") or item.get("phone"))
StudentOf(item) ==
    [id    |-> PyStr(Or(Or(item.id, item.codigo), Str(""))),
     name  |-> Or(Or(item.nome, item.name), Str("")),
     phone |-> Or(Or(item.telefone, item.celular), item.phone)]

NoStudent == [id |-> "", name |-> Str(""), phone |-> Null]

\* Roster items the server may send.
RawA == [id |-> Str("a"), codigo |-> Null, nome |-> Str("Ana"), name |-> Null,
         telefone |-> Str("111"), celular |-> Null, phone |-> Null]
RawB == [id |-> Num("0"), codigo |-> Num("7"), nome |-> Null, name |-> Str("Bia"),
         telefone |-> Null, celular |-> Str("222"), phone |-> Null]
RawE == [id |-> Num("0"), codigo |-> Str(""), nome |-> Null, name |-> Null,
         telefone |-> Null, celular |-> Null, phone |-> Null]

\* Page bodies the server may send when the enumeration is exercised alone:
\* each list under `items` and `data` absent, empty or filled, and the page
\* count absent, zero, reached, not yet reached, or sent as a string.
IterPages ==
    [items      : {NoList, List(<<>>), List(<<RawA>>), List(<<RawA, RawE>>)},
     data       : {NoList, List(<<>>), List(<<RawB>>)},
     totalPages : {NoCount, Count(0), Count(1), Count(MaxPage), CountStr(0)},
     pages      : {NoCount, Count(1)}]

----------------------------------------------------------------------------
(* Dates and invoices *)

\* date.today(), as a day of January 2025; the same day throughout a run.
Today == 1
WindowDays == 5

\* IntegrationConfig.due_start, IntegrationConfig.due_end
DueStart == Today
DueEnd == Today + WindowDays

\* date.isoformat()
IsoFormat(d) == IF d < 10 THEN "2025-01-0" \o ToString(d) ELSE "2025-01-" \o ToString(d)

\* A due-date field as sent: null, "", a calendar date ("2025-01-03"), a
\* timestamp ("2025-01-03T10:00:00") or text in no ISO format ("03/01/2025").
DNull == [t |-> "null", fmt |-> "", day |-> 0]
DEmpty == [t |-> "str", fmt |-> "empty", day |-> 0]
DBad == [t |-> "str", fmt |-> "other", day |-> 0]
DDate(d) == [t |-> "str", fmt |-> "date", day |-> d]
DDateTime(d) == [t |-> "str", fmt |-> "datetime", day |-> d]

DateTruthy(x) == x.t = "str" /\ x.fmt # "empty"

NoDate == [ok |-> FALSE, day |-> 0]
SomeDate(d) == [ok |-> TRUE, day |-> d]

\* date.fromisoformat(value): a calendar date only, else ValueError
DateFromIso(x) == IF x.fmt = "date" THEN SomeDate(x.day) ELSE NoDate

\* datetime.fromisoformat(value).date(): a date or a timestamp, else ValueError
DateTimeFromIso(x) == IF x.fmt \in {"date", "datetime"} THEN SomeDate(x.day) ELSE NoDate

\* Fault variant: no fallback to the timestamp format.
ParseDateStrict(x) == IF ~DateTruthy(x) THEN NoDate ELSE DateFromIso(x)

\* SIGAClient._parse_date
ParseDate(x) ==
    IF ~DateTruthy(x) THEN NoDate
    ELSE IF DateFromIso(x).ok THEN DateFromIso(x)
    ELSE DateTimeFromIso(x)

\* Fault variant: the last day of the window excluded.
InWindowExclusive(d, start, end) == ~(d < start \/ d >= end)

\* not (due_date < start or due_date > end)
InWindow(d, start, end) == ~(d < start \/ d > end)

\* float(x) of a JSON number
Float(x) == x.v \o ".0"

\* item.get("dataVencimento") or item.get("dt_vencimento")
DueField(item) == IF DateTruthy(item.dataVencimento) THEN item.dataVencimento
                  ELSE item.dt_vencimento

\* The Boleto built from a response item whose date parsed to `d`.
BoletoOf(item, d) ==
    [id         |-> PyStr(Or(Or(item.id, item.codigo), Str(""))),
     due_date   |-> d,
     amount     |-> Float(Or(Or(Or(item.valor, item.valor_recebido_total),
                                item.valor_boleto), Num("0"))),
     barcode    |-> Or(Or(item.codigoBarras, item.codigo_barras), Str("")),
     line_digit |-> Or(Or(item.linhaDigitavel, item.linha_digitavel), Str(""))]

\* items = payload.get("items") or payload.get("data")
\*         or payload.get("resultados") or []
BoletoItems(body) ==
    IF ListTruthy(body.items) THEN body.items.val
    ELSE IF ListTruthy(body.data) THEN body.data.val
    ELSE IF ListTruthy(body.resultados) THEN body.resultados.val
    ELSE <<>>

\* The loop of get_boletos_due: items without a date, or with a date outside
\* the window, are skipped; the others are appended in order.
RECURSIVE FilterDue(_, _, _)
FilterDue(its, start, end) ==
    IF its = <<>> THEN <<>>
    ELSE LET due_date == ParseDate(DueField(Head(its)))
             rest == FilterDue(Tail(its), start, end)
         IN IF ~due_date.ok THEN rest
            ELSE IF ~InWindow(due_date.day, start, end) THEN rest
            ELSE <<BoletoOf(Head(its), due_date.day)>> \o rest

\* SIGAClient.get_boletos_due, on the body of a successful response
GetBoletosDue(body, start, end) == FilterDue(BoletoItems(body), start, end)

\* An invoice item as sent, with the given two due-date fields.
RawBoleto(id, dv, dt) ==
    [id |-> id, codigo |-> Null, dataVencimento |-> dv, dt_vencimento |-> dt,
     valor |-> Null, valor_recebido_total |-> Num("0"), valor_boleto |-> Num("50"),
     codigoBarras |-> Null, codigo_barras |-> Str("8466"),
     linhaDigitavel |-> Str("8466-1"), linha_digitavel |-> Null]

BoletoBody(l) == [items |-> List(l), data |-> NoList, resultados |-> NoList]

----------------------------------------------------------------------------
(* build_megazap_payload *)

PayloadKeys == {"telefone", "mensagem", "valor", "codigoBarras",
                "linhaDigitavel", "dataVencimento"}

\* Fault variant: plain assignment, which overwrites the template.
SetAlways(p, k, v) == [x \in DOMAIN p \cup {k} |-> IF x = k THEN v ELSE p[x]]

\* dict.setdefault(k, v)
SetDefault(p, k, v) ==
    IF k \in DOMAIN p THEN p
    ELSE [x \in DOMAIN p \cup {k} |-> IF x = k THEN v ELSE p[x]]

\* config.megazap_default_message.format(nome=..., data_vencimento=...)
\* with the default template of load_config
DefaultMessage(nome, data_vencimento) ==
    Str("Ola " \o PyStr(nome) \o ", seu boleto vence em " \o IsoFormat(data_vencimento) \o ". ")

\* _safe_student(asdict(student)), _safe_boleto(asdict(boleto)) keep every
\* field; the payload is a deep copy of the template with six setdefault calls.
BuildMegazapPayload(template, aluno, boleto) ==
    LET p0 == template
        p1 == SetDefault(p0, "telefone", aluno.phone)
        p2 == SetDefault(p1, "mensagem", DefaultMessage(aluno.name, boleto.due_date))
        p3 == SetDefault(p2, "valor", [t |-> "float", v |-> boleto.amount])
        p4 == SetDefault(p3, "codigoBarras", boleto.barcode)
        p5 == SetDefault(p4, "linhaDigitavel", boleto.line_digit)
        p6 == SetDefault(p5, "dataVencimento", [t |-> "date", v |-> IsoFormat(boleto.due_date)])
    IN p6

\* Fault variant: no deep copy, the template object itself is filled in.
TemplateAliased(template, built) == built

\* The value of config.megazap_payload_template after a call: setdefault acts
\* on copy.deepcopy(template), never on the configured object.
TemplateAfterBuild(template, built) == template

----------------------------------------------------------------------------
(* Requests *)

PageReq(p, ok) == [kind |-> "page", page |-> p, sid |-> "", bid |-> "", ok |-> ok]
BoletosReq(sid, ok) == [kind |-> "boletos", page |-> 0, sid |-> sid, bid |-> "", ok |-> ok]
SendReq(sid, bid, ok) == [kind |-> "send", page |-> 0, sid |-> sid, bid |-> bid, ok |-> ok]

\* Fault variant: the status is not checked.
RaiseForStatusIgnored(ok, next) == next

\* response.raise_for_status(): a failed request raises, nothing catches it,
\* and the process ends; otherwise control goes on to `next`.
RaiseForStatus(ok, next) == IF ok THEN next ELSE "failed"

----------------------------------------------------------------------------
(* SIGAClient.iter_active_students, a generator *)

\* Top of the while loop: one GET of the current page.
RequestPage(Dom) ==
    /\ pc = "gen_request"
    /\ page <= MaxPage
    /\ \E ok \in BOOLEAN, body \in Dom :
          /\ requests' = Append(requests, PageReq(page, ok))
          /\ pc' = RaiseForStatus(ok, "gen_items")
          /\ error' = IF ok THEN error ELSE "HTTPError"
          /\ IF ok
             THEN /\ payload' = body
                  /\ items' = PageItems(body)
                  /\ idx' = 1
                  /\ pagesServed' = Append(pagesServed, body)
             ELSE UNCHANGED <<payload, items, idx, pagesServed>>
    /\ UNCHANGED <<caller, args, env, page, student, boletos, bidx,
                   boletosServed, yielded, log, input, output>>

\* for item in items: yield Student(...). Control passes to the consumer:
\* the body of run_integration's for loop, or a plain collector.
YieldStudent ==
    /\ pc = "gen_items"
    /\ idx <= Len(items)
    /\ student' = StudentOf(items[idx])
    /\ yielded' = Append(yielded, StudentOf(items[idx]))
    /\ idx' = idx + 1
    /\ pc' = IF caller = "run" THEN "student" ELSE "gen_items"
    /\ UNCHANGED <<caller, args, env, page, payload, items, boletos, bidx,
                   requests, pagesServed, boletosServed, log, error, input, output>>

\* After the for loop: the two break conditions, else page += 1.
\* A finished generator ends the consumer's loop, and with it the run.
EndPage ==
    /\ pc = "gen_items"
    /\ idx > Len(items)
    /\ IF ReachedTotal(payload, page) \/ StopsOnEmpty(items)
       THEN pc' = "done" /\ page' = page
       ELSE pc' = "gen_request" /\ page' = page + 1
    /\ UNCHANGED <<caller, args, env, payload, items, idx, student, boletos, bidx,
                   requests, pagesServed, boletosServed, yielded, log, error,
                   input, output>>

NoArgs == [dry_run |-> FALSE, debug_siga |-> FALSE, debug |-> FALSE]
NoPayload == [k \in {} |-> Null]
NoEnv == [siga_token |-> TRUE, megazap_token |-> TRUE, template |-> NoPayload]
NoBody == [items |-> NoList, data |-> NoList, totalPages |-> NoCount, pages |-> NoCount]

\* list(client.iter_active_students(year)): the enumeration on its own.
InitIter ==
    /\ pc = "gen_request"
    /\ caller = "list"
    /\ args = NoArgs
    /\ env = NoEnv
    /\ page = 1
    /\ payload = NoBody
    /\ items = <<>>
    /\ idx = 1
    /\ student = NoStudent
    /\ boletos = <<>>
    /\ bidx = 1
    /\ requests = <<>>
    /\ pagesServed = <<>>
    /\ boletosServed = <<>>
    /\ yielded = <<>>
    /\ log = <<>>
    /\ error = ""
    /\ input = <<>>
    /\ output = <<>>

NextIter == RequestPage(IterPages) \/ YieldStudent \/ EndPage

SpecIter == InitIter /\ [][NextIter]_vars

----------------------------------------------------------------------------
(* main, debug_siga, run_integration *)

\* Invoice items the server may send: due on the first day of the window, on
\* its last day (as a timestamp, under the alternate field name), and on the
\* day after it.
RawX == RawBoleto(Str("x"), DDate(DueStart), DNull)
RawY == RawBoleto(Num("9"), DEmpty, DDateTime(DueEnd))
RawO == RawBoleto(Str("o"), DDate(DueEnd + 1), DDate(DueStart))

RunBoletoBodies == {BoletoBody(<<>>), BoletoBody(<<RawO>>), BoletoBody(<<RawX, RawO, RawY>>)}

\* Page bodies the server may send during a run.
RunPages ==
    [items      : {List(<<>>), List(<<RawB>>), List(<<RawA, RawE, RawB>>)},
     data       : {NoList},
     totalPages : {NoCount, Count(MaxPage)},
     pages      : {NoCount}]

\* The operator's MEGAZAP_PAYLOAD_TEMPLATE_JSON during a run.
RunTemplate == [k \in {"mensagem", "canal"} |-> IF k = "mensagem" THEN Str("Custom") ELSE Str("wpp")]

\* The attributes class SIGAClient defines.
SIGAClientMethods == {"__init__", "_headers", "iter_active_students",
                      "_parse_date", "get_boletos_due"}

\* load_config(require_megazap_token): ValueError when a required token is unset
LoadConfigOk(e, require_megazap_token) ==
    e.siga_token /\ (require_megazap_token => e.megazap_token)

\* main: parse the flags, load the configuration, then debug_siga and return,
\* or run_integration (whose for loop first resumes the generator).
Main ==
    /\ pc = "start"
    /\ LET debug_mode == args.debug_siga \/ args.debug
       IN  IF ~LoadConfigOk(env, ~(args.dry_run \/ debug_mode))
           THEN pc' = "failed" /\ error' = "ValueError"
           ELSE /\ pc' = IF debug_mode THEN "debug" ELSE "gen_request"
                /\ error' = error
    /\ UNCHANGED <<caller, args, env, page, payload, items, idx, student, boletos,
                   bidx, requests, pagesServed, boletosServed, yielded, log,
                   input, output>>

\* debug_siga: after constructing the client, its first statement calls
\* siga_client.build_students_request(...). SIGAClient defines no such
\* attribute, so the call raises AttributeError before anything is logged.
DebugSiga ==
    /\ pc = "debug"
    /\ "build_students_request" \notin SIGAClientMethods
    /\ pc' = "failed"
    /\ error' = "AttributeError"
    /\ UNCHANGED <<caller, args, env, page, payload, items, idx, student, boletos,
                   bidx, requests, pagesServed, boletosServed, yielded, log,
                   input, output>>

LogRec(event, sid, bid, body) == [event |-> event, sid |-> sid, bid |-> bid, payload |-> body]

\* Fault variant: students without id are not skipped.
EveryStudentActionable(st) == TRUE

\* if not student.id: warn and continue
StudentActionable(st) == st.id # ""

\* run_integration, from the student handed over by the generator to the
\* start of the loop over its invoices: skip a student without id, else
\* fetch the invoices due in the window.
HandleStudent ==
    /\ pc = "student"
    /\ IF ~StudentActionable(student)
       THEN /\ log' = Append(log, LogRec("warning", student.id, "", NoPayload))
            /\ pc' = "gen_items"
            /\ UNCHANGED <<boletos, bidx, requests, boletosServed, error>>
       ELSE \E ok \in BOOLEAN, body \in RunBoletoBodies :
              LET got == IF ok THEN GetBoletosDue(body, DueStart, DueEnd) ELSE boletos
              IN  /\ requests' = Append(requests, BoletosReq(student.id, ok))
                  /\ boletos' = got
                  /\ bidx' = IF ok THEN 1 ELSE bidx
                  /\ boletosServed' = IF ok THEN Append(boletosServed, body)
                                             ELSE boletosServed
                  /\ pc' = RaiseForStatus(ok, IF got = <<>> THEN "gen_items" ELSE "boleto")
                  /\ error' = IF ok THEN error ELSE "HTTPError"
                  /\ log' = log
    /\ UNCHANGED <<caller, args, env, page, payload, items, idx, student,
                   pagesServed, yielded, input, output>>

\* Fault variant: the dry-run flag is not honoured.
DryRunIgnored(dry_run) == FALSE

\* if dry_run: log the payload and continue
DryRunSkipsSend(dry_run) == dry_run

\* run_integration, one pass of the loop over boletos: build the payload,
\* then log it (dry run) or POST it and log the response.
HandleBoleto ==
    /\ pc = "boleto"
    /\ bidx <= Len(boletos)
    /\ LET boleto == boletos[bidx]
           built == BuildMegazapPayload(env.template, student, boleto)
           next == IF bidx < Len(boletos) THEN "boleto" ELSE "gen_items"
       IN  /\ env' = [env EXCEPT !.template = TemplateAfterBuild(env.template, built)]
           /\ bidx' = bidx + 1
           /\ IF DryRunSkipsSend(args.dry_run)
              THEN /\ log' = Append(log, LogRec("dry_run", student.id, boleto.id, built))
                   /\ pc' = next
                   /\ UNCHANGED <<requests, error>>
              ELSE \E ok \in BOOLEAN :
                     /\ requests' = Append(requests, SendReq(student.id, boleto.id, ok))
                     /\ log' = IF ok THEN Append(log, LogRec("sent", student.id, boleto.id, built))
                                     ELSE log
                     /\ pc' = RaiseForStatus(ok, next)
                     /\ error' = IF ok THEN error ELSE "HTTPError"
    /\ UNCHANGED <<caller, args, page, payload, items, idx, student, boletos,
                   pagesServed, boletosServed, yielded, input, output>>

\* The process as started from the command line.
Init ==
    /\ pc = "start"
    /\ caller = "run"
    /\ args \in [dry_run : BOOLEAN, debug_siga : BOOLEAN, debug : BOOLEAN]
    /\ env \in [siga_token : BOOLEAN, megazap_token : BOOLEAN, template : {RunTemplate}]
    /\ page = 1
    /\ payload = NoBody
    /\ items = <<>>
    /\ idx = 1
    /\ student = NoStudent
    /\ boletos = <<>>
    /\ bidx = 1
    /\ requests = <<>>
    /\ pagesServed = <<>>
    /\ boletosServed = <<>>
    /\ yielded = <<>>
    /\ log = <<>>
    /\ error = ""
    /\ input = <<>>
    /\ output = <<>>

Next ==
    \/ Main
    \/ DebugSiga
    \/ RequestPage(RunPages)
    \/ YieldStudent
    \/ EndPage
    \/ HandleStudent
    \/ HandleBoleto

Spec == Init /\ [][Next]_vars

----------------------------------------------------------------------------
(* get_boletos_due on its own *)

\* Due-date fields the server may send.
DateFields == {DNull, DEmpty, DBad} \cup {DDate(d) : d \in 0..MaxDay}
                                   \cup {DDateTime(d) : d \in 0..MaxDay}

\* Invoice items the server may send: every due-date field under the first
\* name alone, and a calendar date under the second name next to a first
\* one that is null, empty or in no ISO format.
PureBoletos ==
    {RawBoleto(Str("x"), dv, DNull) : dv \in DateFields}
    \cup {RawBoleto(Str("x"), dv, DDate(1)) : dv \in {DNull, DEmpty, DBad}}

\* Response bodies: the list under `items`, or under `resultados` next to an
\* empty `items`.
PureBoletoBodies ==
    {BoletoBody(l) : l \in SeqsUpTo(PureBoletos, MaxBoletos)}
    \cup {[items |-> List(<<>>), data |-> NoList, resultados |-> List(l)] :
            l \in SeqsUpTo(PureBoletos, MaxBoletos)}

InitBoletos ==
    /\ pc = "call"
    /\ caller = "direct"
    /\ args = NoArgs
    /\ env = NoEnv
    /\ page = 1
    /\ payload = NoBody
    /\ items = <<>>
    /\ idx = 1
    /\ student = NoStudent
    /\ boletos = <<>>
    /\ bidx = 1
    /\ requests = <<>>
    /\ pagesServed = <<>>
    /\ boletosServed = <<>>
    /\ yielded = <<>>
    /\ log = <<>>
    /\ error = ""
    /\ input \in {w \in [body : PureBoletoBodies, start : 0..MaxDay, end : 0..MaxDay] :
                     w.start <= w.end}
    /\ output = <<>>

\* get_boletos_due(aluno_id, start, end) on a successful response
CallGetBoletosDue ==
    /\ pc = "call"
    /\ pc' = "returned"
    /\ output' = GetBoletosDue(input.body, input.start, input.end)
    /\ UNCHANGED <<caller, args, env, page, payload, items, idx, student, boletos,
                   bidx, requests, pagesServed, boletosServed, yielded, log, error,
                   input>>

NextBoletos == CallGetBoletosDue

SpecBoletos == InitBoletos /\ [][NextBoletos]_vars

----------------------------------------------------------------------------
(* build_megazap_payload on its own *)

TemplateKeys == PayloadKeys \cup {"canal"}

\* Operator templates: any set of keys, each holding a text or null.
Templates == UNION {[K -> {Str("Custom"), Null}] : K \in SUBSET TemplateKeys}

InitPayload ==
    /\ pc = "call"
    /\ caller = "direct"
    /\ args = NoArgs
    /\ \E tpl \in Templates :
          /\ env = [siga_token |-> TRUE, megazap_token |-> TRUE, template |-> tpl]
          /\ input \in [template : {tpl},
                         aluno : {StudentOf(RawA), StudentOf(RawE)},
                         boleto : {BoletoOf(RawX, DueStart), BoletoOf(RawY, DueEnd)}]
    /\ page = 1
    /\ payload = NoBody
    /\ items = <<>>
    /\ idx = 1
    /\ student = NoStudent
    /\ boletos = <<>>
    /\ bidx = 1
    /\ requests = <<>>
    /\ pagesServed = <<>>
    /\ boletosServed = <<>>
    /\ yielded = <<>>
    /\ log = <<>>
    /\ error = ""
    /\ output = <<>>

\* build_megazap_payload(config, aluno, boleto)
CallBuildMegazapPayload ==
    /\ pc = "call"
    /\ pc' = "returned"
    /\ LET built == BuildMegazapPayload(env.template, input.aluno, input.boleto)
       IN  /\ output' = built
           /\ env' = [env EXCEPT !.template = TemplateAfterBuild(env.template, built)]
    /\ UNCHANGED <<caller, args, page, payload, items, idx, student, boletos,
                   bidx, requests, pagesServed, boletosServed, yielded, log, error,
                   input>>

NextPayload == CallBuildMegazapPayload

SpecPayload == InitPayload /\ [][NextPayload]_vars

----------------------------------------------------------------------------
(* _redact_value, _redact_authorization: strings are sequences of characters *)

Visible == 4

Vazio == <<"<", "v", "a", "z", "i", "o", ">">>
Stars == <<"*", "*", "*">>
Dots == <<".", ".", ".">>

\* _redact_value(value, visible=4)
RedactValue(value) ==
    IF value = <<>> THEN Vazio
    ELSE IF Len(value) <= Visible THEN Stars
    ELSE SubSeq(value, 1, 2) \o Dots \o SubSeq(value, Len(value) - Visible + 1, Len(value))

\* Position of the first space of s, 0 when it has none.
FirstSpace(s) ==
    IF \E i \in 1..Len(s) : s[i] = " "
    THEN CHOOSE i \in 1..Len(s) : s[i] = " " /\ \A j \in 1..(i - 1) : s[j] # " "
    ELSE 0

\* _redact_authorization(value): value.split(" ", 1)
RedactAuthorization(value) ==
    IF value = <<>> THEN Vazio
    ELSE LET i == FirstSpace(value)
         IN  IF i > 0
             THEN SubSeq(value, 1, i - 1) \o <<" ">>
                  \o RedactValue(SubSeq(value, i + 1, Len(value)))
             ELSE RedactValue(value)

\* str.strip() for spaces
RECURSIVE Strip(_)
Strip(s) ==
    IF s = <<>> THEN s
    ELSE IF Head(s) = " " THEN Strip(Tail(s))
    ELSE IF s[Len(s)] = " " THEN Strip(SubSeq(s, 1, Len(s) - 1))
    ELSE s

\* SIGAClient._headers: f"{prefix} {token}".strip()
AuthHeader(prefix, token) == Strip(prefix \o <<" ">> \o token)

TokenChars == {"a", "."}
Tokens == SeqsUpTo(TokenChars, MaxTokenLen)
Prefixes == {<<"B">>, <<"B", "r">>}

InitRedact ==
    /\ pc = "call"
    /\ caller = "direct"
    /\ args = NoArgs
    /\ env = NoEnv
    /\ page = 1
    /\ payload = NoBody
    /\ items = <<>>
    /\ idx = 1
    /\ student = NoStudent
    /\ boletos = <<>>
    /\ bidx = 1
    /\ requests = <<>>
    /\ pagesServed = <<>>
    /\ boletosServed = <<>>
    /\ yielded = <<>>
    /\ log = <<>>
    /\ error = ""
    /\ input \in [prefix : Prefixes, token : Tokens]
    /\ output = <<>>

\* _redact_value(token)
CallRedactValue ==
    /\ pc = "call"
    /\ pc' = "value"
    /\ output' = RedactValue(input.token)
    /\ UNCHANGED <<caller, args, env, page, payload, items, idx, student, boletos,
                   bidx, requests, pagesServed, boletosServed, yielded, log, error,
                   input>>

\* _redact_authorization(headers[config.siga_auth_header])
CallRedactAuthorization ==
    /\ pc = "call"
    /\ pc' = "authorization"
    /\ output' = RedactAuthorization(AuthHeader(input.prefix, input.token))
    /\ UNCHANGED <<caller, args, env, page, payload, items, idx, student, boletos,
                   bidx, requests, pagesServed, boletosServed, yielded, log, error,
                   input>>

NextRedact == CallRedactValue \/ CallRedactAuthorization

SpecRedact == InitRedact /\ [][NextRedact]_vars

----------------------------------------------------------------------------
(* Properties of iter_active_students, under SpecIter *)

Students(its) == [i \in 1..Len(its) |-> StudentOf(its[i])]

\* The item list of a page body: `items` unless absent or empty, else `data`
\* unless absent or empty, else the empty list.
FirstNonEmptyList(body) ==
    IF body.items.has /\ Len(body.items.val) > 0 THEN body.items.val
    ELSE IF body.data.has /\ Len(body.data.val) > 0 THEN body.data.val
    ELSE <<>>

\* The item list of a page body: `items` if present, else `data` if present,
\* else the empty list.
FirstPresentList(body) ==
    IF body.items.has THEN body.items.val
    ELSE IF body.data.has THEN body.data.val
    ELSE <<>>

RECURSIVE StudentsOfPages(_)
StudentsOfPages(bodies) ==
    IF bodies = <<>> THEN <<>>
    ELSE Students(FirstNonEmptyList(Head(bodies))) \o StudentsOfPages(Tail(bodies))

\* The enumeration has stopped after page p: p was the last request, and
\* control is at the end of page p or past the loop.
StoppedAt(p) ==
    /\ Len(pagesServed) = p
    /\ Len(requests) = p
    /\ page = p
    /\ pc \in {"gen_items", "done"}

\* C1: a page whose item list is empty is the last page requested, whatever
\* its page-count fields say; and when page 1 has items and no page count
\* and page 2 is empty, two requests are issued and exactly the students of
\* page 1 are yielded.
C1_EmptyPageStops ==
    /\ \A p \in 1..Len(pagesServed) :
          FirstNonEmptyList(pagesServed[p]) = <<>> => StoppedAt(p)
    /\ ( /\ pc = "done"
         /\ Len(pagesServed) = 2
         /\ ~pagesServed[1].totalPages.has /\ ~pagesServed[1].pages.has
         /\ FirstNonEmptyList(pagesServed[2]) = <<>> )
       => ( /\ Len(requests) = 2
            /\ yielded = Students(FirstNonEmptyList(pagesServed[1])) )

\* Page 1 had two items and no page count, page 2 was empty and declared a
\* page count of zero: the enumeration is over after two requests.
C1_Witness ==
    /\ pc = "done"
    /\ Len(pagesServed) = 2
    /\ ~pagesServed[1].totalPages.has /\ ~pagesServed[1].pages.has
    /\ Len(FirstNonEmptyList(pagesServed[1])) = 2
    /\ FirstNonEmptyList(pagesServed[2]) = <<>>
    /\ pagesServed[2].totalPages = Count(0)
    /\ Len(yielded) = 2

\* The page count a body declares: `totalPages` if present, else `pages`.
DeclaredTotal(body) == IF body.totalPages.has THEN body.totalPages ELSE body.pages

\* C2 as stated: whenever page p declares a page count t with p >= t, the
\* enumeration stops after page p.
C2_AnyDeclaredTotalStops ==
    \A p \in 1..Len(pagesServed) :
        (DeclaredTotal(pagesServed[p]).has /\ p >= DeclaredTotal(pagesServed[p]).val)
            => StoppedAt(p)

\* The page count a body declares, a count of zero sent as a number counting
\* as none: `totalPages` unless absent or 0, else `pages`.
NonZeroTotal(body) ==
    IF body.totalPages.has /\ (body.totalPages.str \/ body.totalPages.val # 0)
    THEN body.totalPages
    ELSE body.pages

HasNonZeroTotal(body) ==
    NonZeroTotal(body).has /\ (NonZeroTotal(body).str \/ NonZeroTotal(body).val # 0)

\* C2, amended: whenever page p declares a page count t that is not the
\* number 0, and p >= t, every item of page p is yielded and the enumeration
\* stops after page p; a non-empty page 1 with a page count of 1 yields
\* exactly its students with one request.
C2_NonZeroTotalStops ==
    /\ \A p \in 1..Len(pagesServed) :
          (HasNonZeroTotal(pagesServed[p]) /\ p >= NonZeroTotal(pagesServed[p]).val)
              => /\ StoppedAt(p)
                 /\ pc = "done" => yielded = StudentsOfPages(pagesServed)
    /\ ( /\ pc = "done"
         /\ Len(pagesServed) >= 1
         /\ pagesServed[1].totalPages = Count(1) )
       => ( /\ Len(requests) = 1
            /\ yielded = Students(FirstNonEmptyList(pagesServed[1])) )

\* A non-empty page 2 that declares two pages ended the enumeration.
C2_Witness ==
    /\ pc = "done"
    /\ Len(pagesServed) = 2
    /\ pagesServed[2].totalPages = Count(2)
    /\ Len(FirstNonEmptyList(pagesServed[2])) = 2
    /\ Len(yielded) >= 3

\* The students yielded so far: all of the earlier pages, and the current
\* page up to the position of its loop.
YieldedSoFar ==
    LET n == Len(pagesServed)
    IN  IF n = 0 THEN <<>>
        ELSE StudentsOfPages(SubSeq(pagesServed, 1, n - 1))
             \o Students(SubSeq(FirstNonEmptyList(pagesServed[n]), 1, idx - 1))

\* C9 as stated: the list enumerated is `items` whenever present, else
\* `data` when present, else empty.
C9_FirstPresentEnumerated ==
    Len(pagesServed) > 0 => items = FirstPresentList(pagesServed[Len(pagesServed)])

\* C9, amended: the list enumerated, whose emptiness ends the enumeration,
\* is `items` when present and non-empty, else `data` when present and
\* non-empty, else the empty list.
C9_FirstNonEmptyEnumerated ==
    Len(pagesServed) > 0 =>
        /\ items = FirstNonEmptyList(pagesServed[Len(pagesServed)])
        /\ idx <= Len(items) + 1
        /\ yielded = YieldedSoFar
        /\ (pc = "gen_request" => items # <<>>)

\* An empty `items` next to a filled `data`: the student under `data` was
\* yielded.
C9_Witness ==
    /\ Len(pagesServed) = 1
    /\ pagesServed[1].items = List(<<>>)
    /\ pagesServed[1].data = List(<<RawB>>)
    /\ yielded = <<StudentOf(RawB)>>

----------------------------------------------------------------------------
(* Properties of a run, under Spec *)

IsRoster(r) == r.kind # "send"
IsSend(r) == r.kind = "send"
IsDryRunLog(l) == l.event = "dry_run"

AllOk == \A i \in 1..Len(requests) : requests[i].ok

\* The submissions due for one student: one per invoice retained from the
\* response, in response order.
Submissions(sid, kept) == [i \in 1..Len(kept) |-> SendReq(sid, kept[i].id, TRUE)]

\* The requests a run without failures issues for the students `sts`, given
\* the invoice responses `served` it receives in order; `cut` when the
\* responses received so far end before the students do.
RECURSIVE ExpectedForStudents(_, _)
ExpectedForStudents(sts, served) ==
    IF sts = <<>> THEN [reqs |-> <<>>, rest |-> served, cut |-> FALSE]
    ELSE IF Head(sts).id = "" THEN ExpectedForStudents(Tail(sts), served)
    ELSE IF served = <<>> THEN [reqs |-> <<>>, rest |-> <<>>, cut |-> TRUE]
    ELSE LET kept == GetBoletosDue(Head(served), DueStart, DueEnd)
             r == ExpectedForStudents(Tail(sts), Tail(served))
         IN  [reqs |-> <<BoletosReq(Head(sts).id, TRUE)>>
                        \o Submissions(Head(sts).id, kept) \o r.reqs,
              rest |-> r.rest,
              cut  |-> r.cut]

\* The requests of a run without failures and without dry-run, given the
\* page responses and invoice responses received: page p, then each student
\* of page p in page order, then page p + 1.
RECURSIVE ExpectedRequests(_, _, _)
ExpectedRequests(p, bodies, served) ==
    IF bodies = <<>> THEN <<>>
    ELSE LET r == ExpectedForStudents(Students(FirstNonEmptyList(Head(bodies))), served)
         IN  <<PageReq(p, TRUE)>> \o r.reqs
             \o (IF r.cut THEN <<>> ELSE ExpectedRequests(p + 1, Tail(bodies), r.rest))

Expected == ExpectedRequests(1, pagesServed, boletosServed)

Pair(r) == <<r.sid, r.bid>>
Pairs(s) == [i \in 1..Len(s) |-> Pair(s[i])]

\* C5: a dry run never submits a notification; its roster requests are those
\* of a run that submits, over the same roster responses, and it builds and
\* logs a payload for each pair the other run submits.
C5_DryRunIssuesNoSubmission ==
    args.dry_run =>
        /\ \A i \in 1..Len(requests) : requests[i].kind # "send"
        /\ AllOk => IsPrefix(requests, SelectSeq(Expected, IsRoster))
        /\ pc = "done" =>
              /\ requests = SelectSeq(Expected, IsRoster)
              /\ Pairs(SelectSeq(log, IsDryRunLog)) = Pairs(SelectSeq(Expected, IsSend))

\* A finished dry run over two pages that logged payloads.
C5_Witness ==
    /\ args.dry_run
    /\ pc = "done"
    /\ Len(pagesServed) = 2
    /\ Len(SelectSeq(log, IsDryRunLog)) >= 4
    /\ Len(boletosServed) >= 3

\* C6: a failed request is the last request of the run, and the run has
\* ended in failure.
C6_FailureEndsRun ==
    \A i \in 1..Len(requests) :
        ~requests[i].ok => /\ i = Len(requests)
                           /\ pc = "failed"
                           /\ error = "HTTPError"

\* A submission failed while an invoice of the student, a student of the
\* page and a further page were left.
C6_Witness ==
    /\ pc = "failed"
    /\ Len(requests) >= 3
    /\ requests[Len(requests)].kind = "send"
    /\ ~requests[Len(requests)].ok
    /\ bidx <= Len(boletos)
    /\ idx <= Len(items)
    /\ ~ReachedTotal(payload, page)

\* C8: in diagnostics mode the program describes the page-1 request, prints
\* it and exits normally, without any request and without the pipeline.
C8_DebugExitsNormally ==
    ((args.debug_siga \/ args.debug) /\ LoadConfigOk(env, FALSE)) =>
        /\ pc \in {"start", "debug", "done"}
        /\ requests = <<>>
        /\ pc = "done" => \E i \in 1..Len(log) : log[i].event = "debug"

\* C10: in a run that submits and in which no request has failed, the
\* requests issued are, in order, page p, then for each student of page p
\* with an id its invoice request and one submission per retained invoice,
\* then page p + 1; no invoice request or submission names an empty id.
C10_SubmissionsInOrder ==
    /\ \A i \in 1..Len(requests) :
          requests[i].kind \in {"boletos", "send"} => requests[i].sid # ""
    /\ (~args.dry_run /\ AllOk) =>
          /\ IsPrefix(requests, Expected)
          /\ pc = "done" => requests = Expected

\* A finished run over two pages: page 1 held three students, one without
\* id, and two invoices were submitted for each of the other two.
C10_Witness ==
    /\ ~args.dry_run
    /\ pc = "done"
    /\ Len(pagesServed) = 2
    /\ Len(FirstNonEmptyList(pagesServed[1])) = 3
    /\ Len(SelectSeq(requests, IsSend)) >= 4
    /\ \E i \in 1..Len(requests) : requests[i].kind = "send" /\ requests[i].sid = "a"
    /\ \E i \in 1..Len(requests) : requests[i].kind = "send" /\ requests[i].sid = "7"
    /\ \E i \in 1..Len(log) : log[i].event = "warning"

----------------------------------------------------------------------------
(* Properties of get_boletos_due, under SpecBoletos *)

\* The item's due-date field holds a calendar date or a timestamp of a day
\* within [start, end].
DueInside(item, start, end) ==
    /\ DueField(item).fmt \in {"date", "datetime"}
    /\ start <= DueField(item).day
    /\ DueField(item).day <= end

\* C3: every Boleto returned is due within [start, end]; the result holds,
\* in response order, exactly the items whose due date parses to a day of
\* the window.
C3_RetainedInWindow ==
    pc = "returned" =>
        LET Inside(item) == DueInside(item, input.start, input.end)
            kept == SelectSeq(BoletoItems(input.body), Inside)
        IN  /\ \A i \in 1..Len(output) :
                  input.start <= output[i].due_date /\ output[i].due_date <= input.end
            /\ Len(output) = Len(kept)
            /\ \A i \in 1..Len(kept) : output[i].due_date = DueField(kept[i]).day

\* Of two items, the first without a usable date and the second a timestamp
\* of the last day of the window, the second alone was returned.
C3_Witness ==
    /\ pc = "returned"
    /\ input.start < input.end
    /\ Len(BoletoItems(input.body)) = 2
    /\ BoletoItems(input.body)[1].dataVencimento = DBad
    /\ BoletoItems(input.body)[2].dataVencimento = DDateTime(input.end)
    /\ Len(output) = 1
    /\ output[1].due_date = input.end

----------------------------------------------------------------------------
(* Properties of build_megazap_payload, under SpecPayload *)

\* The value computed from the student and the invoice for a payload key.
Computed(k, aluno, boleto) ==
    CASE k = "telefone" -> aluno.phone
      [] k = "mensagem" -> DefaultMessage(aluno.name, boleto.due_date)
      [] k = "valor" -> [t |-> "float", v |-> boleto.amount]
      [] k = "codigoBarras" -> boleto.barcode
      [] k = "linhaDigitavel" -> boleto.line_digit
      [] k = "dataVencimento" -> [t |-> "date", v |-> IsoFormat(boleto.due_date)]

\* C4: the payload keeps every key of the template with its value, holds
\* the computed value under each of the six keys the template lacks, and
\* the configured template is as before the call.
C4_TemplateWins ==
    pc = "returned" =>
        /\ DOMAIN output = DOMAIN input.template \cup PayloadKeys
        /\ \A k \in DOMAIN input.template : output[k] = input.template[k]
        /\ \A k \in PayloadKeys \ DOMAIN input.template :
              output[k] = Computed(k, input.aluno, input.boleto)
        /\ env.template = input.template

\* A template with a custom message, a null amount and no phone: the
\* message and the null are kept, the phone is the student's.
C4_Witness ==
    /\ pc = "returned"
    /\ DOMAIN input.template = {"mensagem", "valor"}
    /\ input.template["mensagem"] = Str("Custom")
    /\ input.template["valor"] = Null
    /\ output["mensagem"] = Str("Custom")
    /\ output["valor"] = Null
    /\ output["telefone"] = Str("111")

----------------------------------------------------------------------------
(* Properties of the redaction, under SpecRedact *)

Contains(s, sub) ==
    \E i \in 0..(Len(s) - Len(sub)) : SubSeq(s, i + 1, i + Len(sub)) = sub

\* The characters of a token between its first two and its last four.
Middle(token) == SubSeq(token, 3, Len(token) - Visible)

\* C7: a token of at most four characters is replaced by a fixed
\* placeholder; the masked form of a longer token differs from the token
\* and does not contain its middle segment; the authorization value keeps
\* its scheme prefix and has its token masked in this way.
C7_RedactionHidesToken ==
    /\ pc = "value" =>
          /\ input.token = <<>> => output = Vazio
          /\ (input.token # <<>> /\ Len(input.token) <= Visible) => output = Stars
          /\ Len(input.token) > Visible =>
                /\ output # input.token
                /\ Middle(input.token) # <<>> => ~Contains(output, Middle(input.token))
    /\ (pc = "authorization" /\ input.token # <<>>) =>
          output = input.prefix \o <<" ">> \o RedactValue(input.token)

====
